---------------------------- MODULE Spec2Model ----------------------------
(***************************************************************************)
(* Adaptive quadrature (src/src/quadrature.hpp): Quadrature::Simpson and   *)
(* Quadrature::Lobatto, with the recursion of their `recursive` lambdas    *)
(* unfolded into an explicit call stack.                                   *)
(*                                                                         *)
(* Real.  A value of type Real is a pair <<n, d>>: the rational n/d in     *)
(* lowest terms when d > 0, and the three non-finite values of the         *)
(* floating-point format when d = 0: <<1,0>> is +infinity, <<-1,0>> is     *)
(* -infinity and <<0,0>> is NaN.  Arithmetic is exact on the finite values *)
(* (rounding is not modelled) and follows IEEE-754 on the others; a finite *)
(* result larger in magnitude than RealMax overflows to an infinity.       *)
(*                                                                         *)
(* Scale.  TLC's integers have 32 bits, so the constants of the format are *)
(* scaled: numeric_epsilon is 2^-21 (2^-63 for the 80-bit long double),    *)
(* numeric_interval is 2^-10 (2^-52), RealMax is 2^20.  Their order, and   *)
(* the factor 2^11 between numeric_interval and numeric_epsilon, are those *)
(* of the program.  The two Lobatto nodes sqrt(1/5) and sqrt(2/3), which   *)
(* the program holds rounded to Real, are held as the rationals 2/5 and    *)
(* 4/5.                                                                    *)
(*                                                                         *)
(* Order.  The recursive calls of an activation are the operands of +,     *)
(* whose order of evaluation C++ leaves to the build: `order` holds it.    *)
(***************************************************************************)
EXTENDS Integers, Sequences, FiniteSets, TLC

---------------------------------------------------------------------------
(* Real arithmetic *)

IAbs(i) == IF i < 0 THEN -i ELSE i

ISgn(i) == IF i < 0 THEN -1 ELSE IF i > 0 THEN 1 ELSE 0

\* the element of a one-element set.  The({ e(x) : x \in { v } }) is e(v) with
\* v evaluated once, as the operands of an operation are before it is applied
The(S) == CHOOSE r \in S : TRUE

RECURSIVE GCD(_, _)
Euclid(m, n) == IF n = 0 THEN m ELSE GCD(n, m % n)

GCD(m, n) == The({ Euclid(p[1], p[2]) : p \in { <<m, n>> } })

\* std::numeric_limits<Real>::max(), scaled
RealMax == 1048576

NaN == <<0, 0>>

PInf == <<1, 0>>

NInf == <<-1, 0>>

Inf(s) == IF s < 0 THEN NInf ELSE PInf

IsFinite(v) == v[2] > 0

IsNaN(v) == v = NaN

\* sign of a value that is not NaN
RSgn(v) == ISgn(v[1])

\* s * m / e in lowest terms (m >= 0, e > 0), or an infinity when it exceeds RealMax
Range(s, m, e) ==
    IF m \div e > RealMax \/ (m \div e = RealMax /\ m % e # 0)
    THEN Inf(s)
    ELSE <<s * m, e>>

Reduce(n, d, g) == Range(ISgn(n), IAbs(n) \div g, d \div g)

Lowest(n, d) == The({ Reduce(n, d, g) : g \in { GCD(IAbs(n), d) } })

\* the Real n/d, d > 0
Norm(n, d) == The({ Lowest(p[1], p[2]) : p \in { <<n, d>> } })

R(i) == Norm(i, 1)

Frac(n, d) == Norm(n, d)

Negated(v) == <<-v[1], v[2]>>

RNeg(v) == The({ Negated(x) : x \in { v } })

Magnitude(v) == <<IAbs(v[1]), v[2]>>

\* std::abs
RAbs(v) == The({ Magnitude(x) : x \in { v } })

\* v + w for finite v, w; g is the gcd of their denominators
AddFinite(v, w, g) ==
    Norm(v[1] * (w[2] \div g) + w[1] * (v[2] \div g), (v[2] \div g) * w[2])

Sum(v, w) ==
    IF IsNaN(v) \/ IsNaN(w) THEN NaN
    ELSE IF ~IsFinite(v) /\ ~IsFinite(w) THEN (IF v = w THEN v ELSE NaN)
    ELSE IF ~IsFinite(v) THEN v
    ELSE IF ~IsFinite(w) THEN w
    ELSE The({ AddFinite(v, w, g) : g \in { GCD(v[2], w[2]) } })

RAdd(v, w) == The({ Sum(p[1], p[2]) : p \in { <<v, w>> } })

RSub(v, w) == RAdd(v, RNeg(w))

\* v * w for finite non-zero v, w, cancelled crosswise before multiplying
MulFinite(v, w, g1, g2) ==
    Norm((v[1] \div g1) * (w[1] \div g2), (v[2] \div g2) * (w[2] \div g1))

Product(v, w) ==
    IF IsNaN(v) \/ IsNaN(w) THEN NaN
    ELSE IF ~IsFinite(v) \/ ~IsFinite(w)
         THEN (IF RSgn(v) * RSgn(w) = 0 THEN NaN ELSE Inf(RSgn(v) * RSgn(w)))
    ELSE IF v[1] = 0 \/ w[1] = 0 THEN <<0, 1>>
    ELSE The({ MulFinite(v, w, g1, g2) :
                 g1 \in { GCD(IAbs(v[1]), w[2]) }, g2 \in { GCD(IAbs(w[1]), v[2]) } })

RMul(v, w) == The({ Product(p[1], p[2]) : p \in { <<v, w>> } })

Quotient(v, w) ==
    IF IsNaN(v) \/ IsNaN(w) THEN NaN
    ELSE IF ~IsFinite(w) THEN (IF IsFinite(v) THEN <<0, 1>> ELSE NaN)
    ELSE IF w[1] = 0 THEN (IF RSgn(v) = 0 THEN NaN ELSE Inf(RSgn(v)))
    ELSE IF ~IsFinite(v) THEN Inf(RSgn(v) * RSgn(w))
    ELSE RMul(v, <<ISgn(w[1]) * w[2], IAbs(w[1])>>)

RDiv(v, w) == The({ Quotient(p[1], p[2]) : p \in { <<v, w>> } })

LtFinite(v, w, g) == v[1] * (w[2] \div g) < w[1] * (v[2] \div g)

Less(v, w) ==
    IF IsNaN(v) \/ IsNaN(w) THEN FALSE
    ELSE IF ~IsFinite(v) \/ ~IsFinite(w)
         THEN (IF ~IsFinite(v) /\ ~IsFinite(w) THEN v[1] < w[1]
               ELSE IF ~IsFinite(v) THEN v[1] < 0
               ELSE w[1] > 0)
    ELSE The({ LtFinite(v, w, g) : g \in { GCD(v[2], w[2]) } })

\* v < w; false when either is NaN
RLt(v, w) == The({ Less(p[1], p[2]) : p \in { <<v, w>> } })

Larger(v, w) == IF RLt(v, w) THEN w ELSE v

\* std::max(v, w) == (v < w) ? w : v
RMax(v, w) == The({ Larger(p[1], p[2]) : p \in { <<v, w>> } })

\* std::min on uint8_t
IMin(i, j) == IF j < i THEN j ELSE i

---------------------------------------------------------------------------
(* Program constants *)

\* numeric_epsilon == std::numeric_limits<Real>::epsilon(), scaled
numeric_epsilon == Frac(1, 2097152)

\* numeric_interval == std::numeric_limits<double>::epsilon(), scaled
numeric_interval == Frac(1, 1024)

\* Simpson: std::min(a_max_depth, static_cast<uint8_t>(22))
SimpsonDepthCap == 22

\* Simpson: 512 * numeric_epsilon
SimpsonEpsilonFactor == 512

\* Lobatto: std::min(a_max_depth, static_cast<uint8_t>(8))
LobattoDepthCap == 8

\* default arguments a_max_depth
SimpsonDefaultDepth == 8

LobattoDefaultDepth == 2

\* default argument a_epsilon = 1e-10, scaled: above numeric_interval, below 1
DefaultEpsilon == Frac(1, 64)

\* node_lobatto == sqrt(1/5) and node_kronrod == sqrt(2/3), as rationals
node_lobatto == Frac(2, 5)

node_kronrod == Frac(4, 5)

\* uint8_t
UInt8Max == 255

---------------------------------------------------------------------------
(* Integrands: the std::function<Real(Real)> a caller passes.              *)
(*   poly  c[1] + c[2] x + c[3] x^2 + c[4] x^3      (main.cpp: func_poly)   *)
(*   step  0 left of `at`, c[1] from `at` on        (a jump)               *)
(*   osc   c[1] * (denominator of x modulo 3)       (never smooth)         *)
(*   pole  c[1] / (x - at)                          (infinite at `at`)     *)
(*   dom   NaN left of `at`, -infinity at `at`, x - at right of it         *)
(*                                                  (main.cpp: func_log)   *)
(*   hole  as osc, but c[1] / 0 at `at`                                    *)

Poly(c0, c1, c2, c3) == [kind |-> "poly", c |-> <<c0, c1, c2, c3>>, at |-> R(0)]

Step(amp, at) == [kind |-> "step", c |-> <<amp, 0, 0, 0>>, at |-> at]

Osc(amp) == [kind |-> "osc", c |-> <<amp, 0, 0, 0>>, at |-> R(0)]

Pole(amp, at) == [kind |-> "pole", c |-> <<amp, 0, 0, 0>>, at |-> at]

Dom(at) == [kind |-> "dom", c |-> <<0, 0, 0, 0>>, at |-> at]

Hole(amp, at) == [kind |-> "hole", c |-> <<amp, 0, 0, 0>>, at |-> at]

\* c3*x*x*x + c2*x*x + c1*x + c0, evaluated left to right as in func_poly
PolyValue(c, x) ==
    RAdd(RAdd(RAdd(RMul(RMul(RMul(R(c[4]), x), x), x),
                   RMul(RMul(R(c[3]), x), x)),
              RMul(R(c[2]), x)),
         R(c[1]))

\* the value of the integrand fn at x
Value(fn, x) ==
    CASE fn.kind = "poly" -> PolyValue(fn.c, x)
      [] fn.kind = "step" -> IF RLt(x, fn.at) THEN R(0) ELSE R(fn.c[1])
      [] fn.kind = "osc"  -> R(fn.c[1] * (x[2] % 3))
      [] fn.kind = "pole" -> RDiv(R(fn.c[1]), RSub(x, fn.at))
      [] fn.kind = "hole" -> IF x = fn.at THEN RDiv(R(fn.c[1]), R(0))
                             ELSE R(fn.c[1] * (x[2] % 3))
      [] fn.kind = "dom"  -> IF RLt(x, fn.at) THEN NaN
                             ELSE IF x = fn.at THEN NInf
                             ELSE RSub(x, fn.at)

\* function(x)
F(fn, x) == The({ Value(fn, p) : p \in { x } })

---------------------------------------------------------------------------
(* Simpson: the pure parts *)

\* struct Data of Simpson
SData(x, y, area) == [x |-> x, y |-> y, area |-> area]

\* faulty variant of SimpsonArea: the middle sample weighted 2
SimpsonAreaWeight2(start, my, end) ==
    RDiv(RMul(RAbs(RSub(end.x, start.x)),
              RAdd(RAdd(start.y, RMul(R(2), my)), end.y)),
         R(6))

\* faulty variant of SimpsonArea: the width of the interval left out
SimpsonAreaNoWidth(start, my, end) ==
    RDiv(RAdd(RAdd(start.y, RMul(R(4), my)), end.y), R(6))

\* middle.area = std::abs(end.x - start.x) * (start.y + 4 * middle.y + end.y) / 6
SimpsonArea(start, my, end) ==
    RDiv(RMul(RAbs(RSub(end.x, start.x)),
              RAdd(RAdd(start.y, RMul(R(4), my)), end.y)),
         R(6))

\* middle.y = function(middle.x), then middle.area
SimpsonMiddle(start, mx, my, end) == SData(mx, my, SimpsonArea(start, my, end))

SimpsonSample(fn, start, mx, end) ==
    The({ SimpsonMiddle(start, x, F(fn, x), end) : x \in { mx } })

\* the lambda `evaluate`; middle.x = (start.x + end.x) / 2
evaluate(fn, start, end) ==
    SimpsonSample(fn, start, RDiv(RAdd(start.x, end.x), R(2)), end)

\* faulty variant of SimpsonMaxDepth: a_max_depth taken as given
SimpsonMaxDepthAsGiven(a_max_depth) == a_max_depth

\* uint8_t const max_depth = std::min(a_max_depth, 22)
SimpsonMaxDepth(a_max_depth) == IMin(a_max_depth, SimpsonDepthCap)

\* Real const epsilon = std::max(a_epsilon, 512 * numeric_epsilon)
SimpsonEpsilon(a_epsilon) == RMax(a_epsilon, RMul(R(SimpsonEpsilonFactor), numeric_epsilon))

\* faulty variant of SimpsonStop: the width of the interval not looked at
SimpsonStopOnEpsilon(start, end, eps) == RLt(eps, numeric_epsilon)

\* (epsilon < numeric_epsilon) || (std::abs(end.x - start.x) < numeric_interval)
SimpsonStop(start, end, eps) ==
    RLt(eps, numeric_epsilon) \/ RLt(RAbs(RSub(end.x, start.x)), numeric_interval)

\* Real const error = (left.area + right.area - middle.area) / 15
SimpsonError(left, middle, right) ==
    RDiv(RSub(RAdd(left.area, right.area), middle.area), R(15))

\* faulty variant of SimpsonIncDepth: the increment lost
SimpsonDepthKept(depth) == depth

\* ++depth
SimpsonIncDepth(depth) == depth + 1

\* faulty variant of SimpsonAccept: depth compared before it is incremented
SimpsonAcceptLate(error, eps, depth, maxDepth) ==
    RLt(RAbs(error), eps) \/ depth > maxDepth

\* (std::abs(error) < epsilon) || (++depth > max_depth)
SimpsonAccept(error, eps, depth, maxDepth) ==
    RLt(RAbs(error), eps) \/ SimpsonIncDepth(depth) > maxDepth

\* return left.area + right.area + error
SimpsonEstimate(left, right, error) == RAdd(RAdd(left.area, right.area), error)

\* faulty variant of SimpsonChildEpsilon: epsilon handed on as it is
SimpsonSameEpsilon(eps) == eps

\* the epsilon handed to both recursive calls: epsilon / 2
SimpsonChildEpsilon(eps) == RDiv(eps, R(2))

---------------------------------------------------------------------------
(* Lobatto: the pure parts *)

\* struct Data of Lobatto
LData(x, y) == [x |-> x, y |-> y]

\* uint8_t const max_depth = std::min(a_max_depth, 8)
LobattoMaxDepth(a_max_depth) == IMin(a_max_depth, LobattoDepthCap)

\* Real const epsilon = std::max(a_epsilon, numeric_epsilon)
LobattoEpsilon(a_epsilon) == RMax(a_epsilon, numeric_epsilon)

\* Real const h = (end.x - start.x) / 2
LobattoH(start, end) == RDiv(RSub(end.x, start.x), R(2))

\* Data p(x); p.y = function(p.x)
LobattoSample(fn, x) == The({ LData(p, F(fn, p)) : p \in { x } })

\* p4 is the middle point; p2, p3, p5, p6 lie node * h to its left and right
LobattoNodes(fn, start, end, h, p4x) ==
    << start,
       LobattoSample(fn, RSub(p4x, RMul(node_kronrod, h))),
       LobattoSample(fn, RSub(p4x, RMul(node_lobatto, h))),
       LobattoSample(fn, p4x),
       LobattoSample(fn, RAdd(p4x, RMul(node_lobatto, h))),
       LobattoSample(fn, RAdd(p4x, RMul(node_kronrod, h))),
       end >>

\* the seven points of a call: start, p2 .. p6 sampled here, end
LobattoPoints(fn, start, end) ==
    The({ LobattoNodes(fn, start, end, h, p4x) :
            h \in { LobattoH(start, end) }, p4x \in { RDiv(RAdd(start.x, end.x), R(2)) } })

\* the order in which a call samples its five new points
LobattoSampleOrder(p) == << p[2].x, p[3].x, p[4].x, p[5].x, p[6].x >>

\* (h / 1470) * ((start.y + end.y) * 77 + (p2.y + p6.y) * 432 + (p3.y + p5.y) * 625 + p4.y * 672)
AreaKronrod(h, p) ==
    RMul(RDiv(h, R(1470)),
         RAdd(RAdd(RAdd(RMul(RAdd(p[1].y, p[7].y), R(77)),
                        RMul(RAdd(p[2].y, p[6].y), R(432))),
                   RMul(RAdd(p[3].y, p[5].y), R(625))),
              RMul(p[4].y, R(672))))

\* (h / 6) * (start.y + end.y + (p3.y + p5.y) * 5)
AreaLobatto(h, p) ==
    RMul(RDiv(h, R(6)),
         RAdd(RAdd(p[1].y, p[7].y), RMul(RAdd(p[3].y, p[5].y), R(5))))

\* ++depth
LobattoIncDepth(depth) == depth + 1

\* (std::abs(h) < numeric_interval) || (++depth > max_depth)
LobattoStop(h, depth, maxDepth) ==
    RLt(RAbs(h), numeric_interval) \/ LobattoIncDepth(depth) > maxDepth

\* the tolerance of the error test: the captured epsilon, at every level
LobattoTolerance(eps, level) == eps

\* std::abs(area_kronrod - area_lobatto) < epsilon
LobattoAccept(kronrod, lobatto, tol) == RLt(RAbs(RSub(kronrod, lobatto)), tol)

---------------------------------------------------------------------------
(* State *)

VARIABLES
    pc,         \* "idle": no call yet; "running": inside a call; "done": the call has returned
    alg,        \* "Simpson" or "Lobatto": the integrator of the current call
    arg,        \* the arguments as passed: function, a, b, a_epsilon, a_max_depth
    a,          \* lower bound, after the swap
    b,          \* upper bound, after the swap
    epsilon,    \* the local `epsilon`, after the clamp
    max_depth,  \* the local `max_depth`, after the clamp
    stack,      \* the activations of `recursive`, innermost last
    ret,        \* <<v>>: the value the activation that just returned hands its caller
    result,     \* the value of the call, once pc = "done"
    samples,    \* history: the points at which `function` was called, in order
    leaves,     \* history: the activations that returned without recursing
    tested,     \* history: the (level, tolerance) pairs of the error tests made
    ncalls,     \* calls started so far
    first,      \* history: arguments, result and samples of the first call
    order       \* the order in which the build evaluates the operands of +

vars == << pc, alg, arg, a, b, epsilon, max_depth, stack, ret, result,
           samples, leaves, tested, ncalls, first, order >>

\* C++ leaves the order of evaluation of the operands of + unspecified: the
\* recursive calls of lines 163-164 and 247-252 are made first to last or last
\* to first, the same way all through one build
Orders == { "left to right", "right to left" }

\* calls a behaviour makes, one after the other
MaxCalls == 2

\* activations the call stack holds
MaxStack == 24

Arg(fn, lo, hi, eps, depth) ==
    [function |-> fn, a |-> lo, b |-> hi, a_epsilon |-> eps, a_max_depth |-> depth]

NoArg == Arg(Poly(0, 0, 0, 0), R(0), R(0), R(0), 0)

NoCall == [alg |-> "none", arg |-> NoArg, result |-> R(0), samples |-> << >>]

ZeroS == SData(R(0), R(0), R(0))

\* an activation of Simpson's `recursive`, about to run
SFrame(start, middle, end, eps, depth) ==
    [start |-> start, middle |-> middle, end |-> end, epsilon |-> eps, depth |-> depth,
     at |-> "call", left |-> ZeroS, right |-> ZeroS, acc |-> R(0)]
\* at: "call" before the body runs, then "first" and "second": the recursive call awaited

\* an activation of Lobatto's `recursive`, about to run
LFrame(start, end, depth) ==
    [start |-> start, end |-> end, depth |-> depth, idx |-> 0, p |-> << >>, vals |-> << >>]
\* idx: the recursive calls made so far; vals: what they returned, in the order made

Top == stack[Len(stack)]

Pop == SubSeq(stack, 1, Len(stack) - 1)

Leaf(fr, v) == [lo |-> fr.start.x, hi |-> fr.end.x, est |-> v]

\* faulty variant of Swap: the bounds left as given
SwapNever(lo, hi) == << lo, hi >>

\* if (b < a) std::swap(a, b): the pair << a, b >> afterwards
Swap(lo, hi) == IF RLt(hi, lo) THEN << hi, lo >> ELSE << lo, hi >>

---------------------------------------------------------------------------
(* Simpson *)

\* what an activation does: return `value`, or recurse on the halves about left and right
Outcome(out, value, test) == [out |-> out, value |-> value, tested |-> test]

\* lines 159-164: the error estimate decides between the estimate and the two recursive calls
SimpsonDecide(fr, maxDepth, left, right, error) ==
    IF SimpsonAccept(error, fr.epsilon, fr.depth, maxDepth)
    THEN Outcome("return", SimpsonEstimate(left, right, error), TRUE)
    ELSE Outcome("recurse", R(0), TRUE)

\* faulty variant of SimpsonHalves: the samples not checked
SimpsonHalvesUnchecked(fr, maxDepth, left, right) ==
    SimpsonDecide(fr, maxDepth, left, right, SimpsonError(left, fr.middle, right))

\* lines 147-148: a non-finite sample ends the activation with NaN
SimpsonHalves(fr, maxDepth, left, right) ==
    IF ~IsFinite(left.y) \/ ~IsFinite(right.y)
    THEN Outcome("return", NaN, FALSE)
    ELSE The({ SimpsonDecide(fr, maxDepth, left, right, error) :
                 error \in { SimpsonError(left, fr.middle, right) } })

\* the body of Simpson's `recursive` up to its return or its first recursive call,
\* given the two samples it takes unless it stops at once
SimpsonCall(fr, maxDepth, left, right) ==
    IF SimpsonStop(fr.start, fr.end, fr.epsilon)
    THEN Outcome("return", fr.middle.area, FALSE)
    ELSE SimpsonHalves(fr, maxDepth, left, right)

\* the points an activation samples: none when it stops at once
SimpsonSampled(fr, left, right) ==
    IF SimpsonStop(fr.start, fr.end, fr.epsilon) THEN << >> ELSE << left.x, right.x >>

\* meta(function, start, left, middle, epsilon / 2, depth)
SimpsonLeftChild(fr) ==
    SFrame(fr.start, fr.left, fr.middle, SimpsonChildEpsilon(fr.epsilon), fr.depth)

\* faulty variant of SimpsonRightChild: the left half once more
SimpsonRightChildLeftAgain(fr) ==
    SFrame(fr.start, fr.left, fr.middle, SimpsonChildEpsilon(fr.epsilon), fr.depth)

\* meta(function, middle, right, end, epsilon / 2, depth)
SimpsonRightChild(fr) ==
    SFrame(fr.middle, fr.right, fr.end, SimpsonChildEpsilon(fr.epsilon), fr.depth)

\* the k-th recursive call the activation fr makes
SimpsonOperand(fr, k) ==
    IF (k = 1) <=> (order = "left to right") THEN SimpsonLeftChild(fr) ELSE SimpsonRightChild(fr)

\* fr as it is once it has sampled left and right and incremented depth
SimpsonRecursing(fr, left, right) ==
    [fr EXCEPT !.at = "first", !.left = left, !.right = right,
               !.depth = SimpsonIncDepth(fr.depth)]

\* meta(left half) + meta(right half), from the values in the order returned
SimpsonSum(v1, v2) == IF order = "left to right" THEN RAdd(v1, v2) ELSE RAdd(v2, v1)

\* lines 171-174: NaN, or the call of `recursive` on the whole interval
SimpsonStart(start, middle, end, eps) ==
    /\ samples' = << start.x, end.x, middle.x >>
    /\ IF ~IsFinite(start.y) \/ ~IsFinite(end.y) \/ ~IsFinite(middle.y)
       THEN stack' = << >> /\ ret' = << NaN >>
       ELSE stack' = << SFrame(start, middle, end, eps, 0) >> /\ ret' = << >>

\* lines 167-169: the samples at a, b and the middle
SimpsonEnds(fn, start, end, eps) ==
    \E middle \in { evaluate(fn, start, end) } : SimpsonStart(start, middle, end, eps)

SimpsonBounds(fn, lo, hi, eps) ==
    /\ a' = lo
    /\ b' = hi
    /\ epsilon' = eps
    /\ \E start \in { SData(lo, F(fn, lo), R(0)) }, end \in { SData(hi, F(fn, hi), R(0)) } :
           SimpsonEnds(fn, start, end, eps)

\* Quadrature::Simpson up to its call of `recursive`
SimpsonEntry(c) ==
    /\ pc \in {"idle", "done"}
    /\ ncalls < MaxCalls
    /\ \E bounds \in { Swap(c.a, c.b) }, eps \in { SimpsonEpsilon(c.a_epsilon) } :
           SimpsonBounds(c.function, bounds[1], bounds[2], eps)
    /\ max_depth' = SimpsonMaxDepth(c.a_max_depth)
    /\ pc' = "running"
    /\ alg' = "Simpson"
    /\ arg' = c
    /\ leaves' = << >>
    /\ tested' = {}
    /\ ncalls' = ncalls + 1
    /\ UNCHANGED << result, first, order >>

\* the activation fr, having sampled left and right, returns or makes its first recursive call
SimpsonStep(fr, left, right, o) ==
    /\ samples' = samples \o SimpsonSampled(fr, left, right)
    /\ tested' = IF o.tested
                 THEN tested \cup {[level |-> Len(stack) - 1, tol |-> fr.epsilon]}
                 ELSE tested
    /\ IF o.out = "return"
       THEN /\ stack' = Pop
            /\ ret' = << o.value >>
            /\ leaves' = Append(leaves, Leaf(fr, o.value))
       ELSE /\ Len(stack) < MaxStack
            /\ stack' = Append(
                   [stack EXCEPT ![Len(stack)] = SimpsonRecursing(fr, left, right)],
                   SimpsonOperand(SimpsonRecursing(fr, left, right), 1))
            /\ ret' = << >>
            /\ leaves' = leaves

SimpsonRun(fr, left, right) ==
    \E o \in { SimpsonCall(fr, max_depth, left, right) } : SimpsonStep(fr, left, right, o)

\* one activation of Simpson's `recursive` runs to its return or to its first recursive call
SimpsonRecursive ==
    /\ pc = "running"
    /\ alg = "Simpson"
    /\ ret = << >>
    /\ stack # << >>
    /\ Top.at = "call"
    /\ \E left \in { evaluate(arg.function, Top.start, Top.middle) },
          right \in { evaluate(arg.function, Top.middle, Top.end) } :
           SimpsonRun(Top, left, right)
    /\ UNCHANGED << pc, alg, arg, a, b, epsilon, max_depth, result, ncalls, first, order >>

\* a recursive call of Simpson returns into the sum  meta(left half) + meta(right half)
SimpsonResume ==
    /\ pc = "running"
    /\ alg = "Simpson"
    /\ ret # << >>
    /\ stack # << >>
    /\ IF Top.at = "first"
       THEN /\ stack' = Append(
                   [stack EXCEPT ![Len(stack)] = [Top EXCEPT !.at = "second", !.acc = ret[1]]],
                   SimpsonOperand(Top, 2))
            /\ ret' = << >>
       ELSE /\ stack' = Pop
            /\ ret' = << SimpsonSum(Top.acc, ret[1]) >>
    /\ UNCHANGED << pc, alg, arg, a, b, epsilon, max_depth, result,
                    samples, leaves, tested, ncalls, first, order >>

---------------------------------------------------------------------------
(* Lobatto *)

\* lines 241-245: the error estimate decides between area_kronrod and the six recursive calls
LobattoDecide(kronrod, lobatto, tol) ==
    IF LobattoAccept(kronrod, lobatto, tol)
    THEN Outcome("return", kronrod, TRUE)
    ELSE Outcome("recurse", R(0), TRUE)

\* lines 234-238: NaN, or area_kronrod at the smallest interval and at the depth limit
LobattoAreas(h, p, kronrod, depth, maxDepth, tol) ==
    IF ~IsFinite(kronrod)
    THEN Outcome("return", NaN, FALSE)
    ELSE IF LobattoStop(h, depth, maxDepth)
    THEN Outcome("return", kronrod, FALSE)
    ELSE LobattoDecide(kronrod, AreaLobatto(h, p), tol)

\* the body of Lobatto's `recursive` up to its return or its first recursive call,
\* given the points it samples
LobattoCall(h, p, depth, maxDepth, tol) ==
    The({ LobattoAreas(h, p, kronrod, depth, maxDepth, tol) : kronrod \in { AreaKronrod(h, p) } })

\* the i-th of the six recursive calls: meta(function, p[i], p[i+1], depth)
LobattoChild(p, i, depth) == LFrame(p[i], p[i + 1], depth)

\* the one of the six calls that is made k-th
LobattoOperand(k) == IF order = "left to right" THEN k ELSE 7 - k

\* the sum of the six calls, first to last, from their values in the order made
LobattoSum(vals) ==
    RAdd(RAdd(RAdd(RAdd(RAdd(vals[LobattoOperand(1)], vals[LobattoOperand(2)]),
                             vals[LobattoOperand(3)]),
                        vals[LobattoOperand(4)]),
                   vals[LobattoOperand(5)]),
         vals[LobattoOperand(6)])

\* lines 259-262: NaN, or the call of `recursive` on the whole interval
LobattoStart(start, end) ==
    /\ samples' = << start.x, end.x >>
    /\ IF ~IsFinite(start.y) \/ ~IsFinite(end.y)
       THEN stack' = << >> /\ ret' = << NaN >>
       ELSE stack' = << LFrame(start, end, 0) >> /\ ret' = << >>

LobattoBounds(fn, lo, hi) ==
    /\ a' = lo
    /\ b' = hi
    /\ \E start \in { LobattoSample(fn, lo) }, end \in { LobattoSample(fn, hi) } :
           LobattoStart(start, end)

\* Quadrature::Lobatto up to its call of `recursive`
LobattoEntry(c) ==
    /\ pc \in {"idle", "done"}
    /\ ncalls < MaxCalls
    /\ \E bounds \in { Swap(c.a, c.b) } : LobattoBounds(c.function, bounds[1], bounds[2])
    /\ max_depth' = LobattoMaxDepth(c.a_max_depth)
    /\ epsilon' = LobattoEpsilon(c.a_epsilon)
    /\ pc' = "running"
    /\ alg' = "Lobatto"
    /\ arg' = c
    /\ leaves' = << >>
    /\ tested' = {}
    /\ ncalls' = ncalls + 1
    /\ UNCHANGED << result, first, order >>

\* the activation fr, having sampled the points p, returns or makes its first recursive call
LobattoStep(fr, p, tol, o) ==
    /\ samples' = samples \o LobattoSampleOrder(p)
    /\ tested' = IF o.tested
                 THEN tested \cup {[level |-> Len(stack) - 1, tol |-> tol]}
                 ELSE tested
    /\ IF o.out = "return"
       THEN /\ stack' = Pop
            /\ ret' = << o.value >>
            /\ leaves' = Append(leaves, Leaf(fr, o.value))
       ELSE /\ Len(stack) < MaxStack
            /\ stack' = Append(
                   [stack EXCEPT ![Len(stack)] =
                       [fr EXCEPT !.idx = 1, !.p = p, !.depth = LobattoIncDepth(fr.depth)]],
                   LobattoChild(p, LobattoOperand(1), LobattoIncDepth(fr.depth)))
            /\ ret' = << >>
            /\ leaves' = leaves

LobattoRun(fr, h, p, tol) ==
    \E o \in { LobattoCall(h, p, fr.depth, max_depth, tol) } : LobattoStep(fr, p, tol, o)

\* one activation of Lobatto's `recursive` runs to its return or to its first recursive call
LobattoRecursive ==
    /\ pc = "running"
    /\ alg = "Lobatto"
    /\ ret = << >>
    /\ stack # << >>
    /\ Top.idx = 0
    /\ \E h \in { LobattoH(Top.start, Top.end) },
          p \in { LobattoPoints(arg.function, Top.start, Top.end) } :
           LobattoRun(Top, h, p, LobattoTolerance(epsilon, Len(stack) - 1))
    /\ UNCHANGED << pc, alg, arg, a, b, epsilon, max_depth, result, ncalls, first, order >>

\* a recursive call of Lobatto returns into the sum of the six calls
LobattoResume ==
    /\ pc = "running"
    /\ alg = "Lobatto"
    /\ ret # << >>
    /\ stack # << >>
    /\ IF Top.idx < 6
       THEN /\ stack' = Append(
                   [stack EXCEPT ![Len(stack)] =
                       [Top EXCEPT !.idx = Top.idx + 1, !.vals = Append(Top.vals, ret[1])]],
                   LobattoChild(Top.p, LobattoOperand(Top.idx + 1), Top.depth))
            /\ ret' = << >>
       ELSE /\ stack' = Pop
            /\ ret' = << LobattoSum(Append(Top.vals, ret[1])) >>
    /\ UNCHANGED << pc, alg, arg, a, b, epsilon, max_depth, result,
                    samples, leaves, tested, ncalls, first, order >>

---------------------------------------------------------------------------
(* Both: the outermost return *)

Return ==
    /\ pc = "running"
    /\ stack = << >>
    /\ ret # << >>
    /\ result' = ret[1]
    /\ ret' = << >>
    /\ pc' = "done"
    /\ first' = IF ncalls = 1
                THEN [alg |-> alg, arg |-> arg, result |-> ret[1], samples |-> samples]
                ELSE first
    /\ UNCHANGED << alg, arg, a, b, epsilon, max_depth, stack,
                    samples, leaves, tested, ncalls, order >>

---------------------------------------------------------------------------
(* The calls a behaviour makes *)

SimpsonFloor == RMul(R(SimpsonEpsilonFactor), numeric_epsilon)

LobattoFloor == numeric_epsilon

Cases(fns, bounds, epss, depths) ==
    { Arg(fn, bd[1], bd[2], e, d) : fn \in fns, bd \in bounds, e \in epss, d \in depths }

IntBounds == { << R(1), R(4) >>, << R(4), R(1) >>, << R(-1), R(1) >>, << R(2), R(2) >> }

\* the polynomials of degree at most 3 tried, func_poly of main.cpp first
SimpsonPolys ==
    { Poly(5, -8, 6, 0), Poly(1, 0, 0, 0), Poly(-1, 0, 0, 1), Poly(2, -1, 1, -1) }

\* a short interval, 16 numeric_interval wide, and the same reversed and degenerate
ShortBounds == { << R(0), Frac(1, 64) >>, << Frac(1, 64), R(0) >>, << R(0), R(0) >> }

SimpsonInputs ==
    Cases(SimpsonPolys,
          IntBounds,
          { R(0), SimpsonFloor, DefaultEpsilon },
          { 0, SimpsonDefaultDepth, SimpsonDepthCap })
    \* an integrand no error test accepts, on intervals a few numeric_interval wide
    \cup Cases({ Osc(1024) },
               { << R(0), Frac(1, 1024) >>, << R(0), Frac(1, 256) >>, << Frac(1, 256), R(0) >>,
                 << R(0), Frac(1, 64) >> },
               { SimpsonFloor, DefaultEpsilon },
               { 0, 1, 2, 3, SimpsonDepthCap })
    \* a jump: one half of every interval is refined, down to the depth limit
    \cup Cases({ Step(1, Frac(16384, 3)) },
               { << R(0), R(16384) >>, << R(16384), R(0) >> },
               { R(8) },
               { 0, 2, SimpsonDepthCap })
    \* the same, the interval at the depth limit being numeric_interval wide
    \cup Cases({ Step(1, Frac(4096, 3)) },
               { << R(0), R(4096) >> },
               { R(8) },
               { SimpsonDepthCap })
    \* non-finite values at the end points, at the first samples, deeper, or nowhere sampled
    \cup Cases({ Pole(1, R(0)), Pole(1, Frac(1, 64)), Pole(-1, Frac(1, 128)),
                 Pole(1, Frac(1, 256)), Pole(1, Frac(3, 256)), Pole(1, Frac(1, 512)),
                 Pole(-1, Frac(5, 512)), Hole(1, Frac(1, 192)),
                 Dom(R(0)), Dom(Frac(1, 128)), Dom(Frac(1, 192)), Dom(R(-1)),
                 Hole(0, Frac(3, 512)) },
               ShortBounds,
               { SimpsonFloor },
               { 0, 2 })
    \* a finite value near the largest Real
    \cup Cases({ Poly(RealMax, 0, 0, 0), Poly(RealMax \div 8, 0, 0, 0) },
               { << R(2), R(2) >>, << R(0), Frac(1, 64) >> },
               { SimpsonFloor },
               { 0, 1 })

LobattoInputs ==
    Cases({ Poly(1, 0, 0, 0), Poly(0, 1, 0, 0), Poly(5, -8, 0, 0) },
          IntBounds,
          { R(0), LobattoFloor, DefaultEpsilon },
          { 0, LobattoDefaultDepth, LobattoDepthCap })
    \cup Cases({ Poly(0, 0, 1, 0) },
               { << R(-5), R(5) >>, << R(5), R(-5) >> },
               { DefaultEpsilon, R(4) },
               { 0, 1, LobattoDefaultDepth })
    \cup Cases({ Osc(64) },
               { << R(0), Frac(1, 512) >>, << Frac(1, 512), R(0) >>, << R(0), Frac(1, 1024) >> },
               { LobattoFloor, DefaultEpsilon },
               { 0, 1, LobattoDefaultDepth, LobattoDepthCap })
    \cup Cases({ Osc(64) }, { << R(0), R(1) >> }, { LobattoFloor }, { 0, 1, LobattoDefaultDepth })
    \cup Cases({ Step(1, Frac(625, 4)) },
               { << R(-625), R(625) >>, << R(625), R(-625) >> },
               { Frac(1, 4096) },
               { 0, 1, LobattoDepthCap })
    \cup Cases({ Hole(1, R(0)), Hole(1, R(1)), Hole(-1, Frac(1, 2)), Hole(1, Frac(1, 10)),
                 Hole(0, Frac(3, 10)), Hole(1, Frac(9, 10)), Hole(1, Frac(1, 100)),
                 Hole(-1, Frac(11, 25)), Hole(1, Frac(1, 3)),
                 Dom(R(0)), Dom(Frac(1, 2)), Dom(Frac(1, 3)), Dom(R(-1)) },
               { << R(0), R(1) >>, << R(1), R(0) >>, << R(0), R(0) >> },
               { LobattoFloor },
               { 0, 1 })
    \cup Cases({ Poly(RealMax, 0, 0, 0), Poly(RealMax \div 4096, 0, 0, 0) },
               { << R(2), R(2) >>, << R(0), R(1) >> },
               { LobattoFloor },
               { 0, 1 })

Inputs(al) == IF al = "Simpson" THEN SimpsonInputs ELSE LobattoInputs

DepthCap(al) == IF al = "Simpson" THEN SimpsonDepthCap ELSE LobattoDepthCap

EpsilonFloor(al) == IF al = "Simpson" THEN SimpsonFloor ELSE LobattoFloor

\* a later call repeats the first with the bounds exchanged, with a max_depth
\* above the limit in place of the limit, or with an epsilon below the floor
\* in place of the floor
Variants(al, c) ==
    { [c EXCEPT !.a = c.b, !.b = c.a] }
    \cup { [c EXCEPT !.a_max_depth = d] :
             d \in IF c.a_max_depth = DepthCap(al) THEN { DepthCap(al) + 1, UInt8Max } ELSE {} }
    \cup { [c EXCEPT !.a_epsilon = e] :
             e \in IF c.a_epsilon = EpsilonFloor(al)
                   THEN { R(-1), RDiv(EpsilonFloor(al), R(2)) } ELSE {} }

CallArgs(al) ==
    IF pc = "idle" THEN Inputs(al)
    ELSE IF first.alg = al THEN Variants(al, first.arg)
    ELSE {}

---------------------------------------------------------------------------
(* Specification *)

Init ==
    /\ pc = "idle"
    /\ alg = "none"
    /\ arg = NoArg
    /\ a = R(0)
    /\ b = R(0)
    /\ epsilon = R(0)
    /\ max_depth = 0
    /\ stack = << >>
    /\ ret = << >>
    /\ result = R(0)
    /\ samples = << >>
    /\ leaves = << >>
    /\ tested = {}
    /\ ncalls = 0
    /\ first = NoCall
    /\ order \in Orders

Simpson == \E c \in CallArgs("Simpson") : SimpsonEntry(c)

Lobatto == \E c \in CallArgs("Lobatto") : LobattoEntry(c)

Next ==
    \/ Simpson
    \/ SimpsonRecursive
    \/ SimpsonResume
    \/ Lobatto
    \/ LobattoRecursive
    \/ LobattoResume
    \/ Return

Spec == Init /\ [][Next]_vars

\* a call, once started, runs: nothing suspends or cancels it
Run == SimpsonRecursive \/ SimpsonResume \/ LobattoRecursive \/ LobattoResume \/ Return

FairSpec == Spec /\ WF_vars(Run)

---------------------------------------------------------------------------
(* Properties *)

RECURSIVE Pow(_, _)
Pow(base, e) == IF e = 0 THEN 1 ELSE base * Pow(base, e - 1)

Done == pc = "done"

Width(fr) == RAbs(RSub(fr.end.x, fr.start.x))

\* the activation fr has made a recursive call
Recursed(fr) == IF alg = "Simpson" THEN fr.at # "call" ELSE fr.idx >= 1

\* the current call repeats the first call of the behaviour
Repeats == Done /\ ncalls >= 2 /\ first.alg = alg

\* C1: when the integrand is non-finite at any point a call of Simpson or of
\* Lobatto has sampled, the call returns NaN.
NonFiniteSampleGivesNaN ==
    (Done /\ \E i \in 1..Len(samples) : ~IsFinite(F(arg.function, samples[i])))
        => IsNaN(result)

\* a call has returned NaN for a non-finite value sampled inside the recursion,
\* after some sub-interval had returned a finite estimate
NaNDespiteFiniteLeaf ==
    /\ Done
    /\ IsNaN(result)
    /\ \A i \in 1..3 : IsFinite(F(arg.function, samples[i]))
    /\ \E i \in 4..Len(samples) : ~IsFinite(F(arg.function, samples[i]))
    /\ \E i \in 1..Len(leaves) : IsFinite(leaves[i].est) /\ leaves[i].est # R(0)

\* C2: every call of Simpson and of Lobatto that has started eventually returns.
EveryCallReturns == (pc = "running") ~> Done

\* a call with a_max_depth = 255 on an integrand no error test accepts has returned
NeverAcceptedCallReturned ==
    /\ Done
    /\ arg.function.kind = "osc"
    /\ arg.a_max_depth = UInt8Max
    /\ tested # {}
    /\ Len(leaves) >= 8

\* the evaluations a call makes at most: the end points (and Simpson's first middle),
\* then 2 (Simpson) or 5 (Lobatto) in each activation of levels 0 .. max_depth
MostSamples == IF alg = "Simpson" THEN Pow(2, max_depth + 2) + 1 ELSE Pow(6, max_depth + 1) + 1

\* C3 as amended: a call evaluates the integrand at most 2^(d+2) + 1 times in
\* Simpson and at most 6^(d+1) + 1 times in Lobatto, d the clamped max_depth.
EvaluationsBounded == alg # "none" => Len(samples) <= MostSamples

\* C3 as stated: a call evaluates the integrand at most 2^d times in Simpson and
\* at most 6^d times in Lobatto.
EvaluationsBoundedByPower ==
    Done => Len(samples) <= Pow(IF alg = "Simpson" THEN 2 ELSE 6, max_depth)

\* a call with max_depth >= 1 has made as many evaluations as the bound allows
EvaluationBoundAttained == Done /\ max_depth >= 1 /\ Len(samples) = MostSamples

OutOfRangeOf(al, c, d) ==
    /\ c.function = d.function
    /\ c.a = d.a
    /\ c.b = d.b
    /\ \/ c.a_max_depth = d.a_max_depth
       \/ c.a_max_depth > DepthCap(al) /\ d.a_max_depth = DepthCap(al)
    /\ \/ c.a_epsilon = d.a_epsilon
       \/ RLt(c.a_epsilon, EpsilonFloor(al)) /\ d.a_epsilon = EpsilonFloor(al)

\* C5: a call with max_depth above the limit (22, 8) or epsilon below the floor
\* (512 numeric_epsilon, numeric_epsilon) returns the result, and samples the
\* points, of the call with the limit or the floor in its place.
ClampedParametersEquivalent ==
    (Repeats /\ OutOfRangeOf(alg, arg, first.arg))
        => result = first.result /\ samples = first.samples

\* a call refined down to the depth limit has been repeated with a_max_depth = 255
DepthAboveLimitRepeated ==
    /\ Repeats
    /\ arg.a_max_depth = UInt8Max
    /\ first.arg.a_max_depth = DepthCap(alg)
    /\ \E t \in tested : t.level >= DepthCap(alg) - 1
    /\ ~IsNaN(result)

\* the antiderivative of the polynomial with coefficients c, at x
Antiderivative(c, x) ==
    RAdd(RAdd(RAdd(RDiv(RMul(RMul(RMul(RMul(R(c[4]), x), x), x), x), R(4)),
                   RDiv(RMul(RMul(RMul(R(c[3]), x), x), x), R(3))),
              RDiv(RMul(RMul(R(c[2]), x), x), R(2))),
         RMul(R(c[1]), x))

ExactIntegral(c, lo, hi) == RSub(Antiderivative(c, hi), Antiderivative(c, lo))

\* main.cpp: Simpson(func_poly, 1, 4) with the default epsilon and max_depth
FuncPolyCall ==
    /\ Done
    /\ alg = "Simpson"
    /\ arg = Arg(Poly(5, -8, 6, 0), R(1), R(4), DefaultEpsilon, SimpsonDefaultDepth)

\* C6 as amended: Simpson's result for a polynomial of degree at most 3 on a < b
\* is within epsilon (as clamped) of the exact integral, which is 81 for
\* 6x^2 - 8x + 5 on [1, 4].
SimpsonExactOnCubics ==
    /\ (Done /\ alg = "Simpson" /\ arg.function \in SimpsonPolys /\ RLt(arg.a, arg.b))
           => RLt(RAbs(RSub(result, ExactIntegral(arg.function.c, arg.a, arg.b))), epsilon)
    /\ FuncPolyCall => RLt(RAbs(RSub(result, R(81))), arg.a_epsilon)

\* C6 as stated: Simpson's result for 6x^2 - 8x + 5 on [1, 4] is within epsilon of 63.
FuncPolyIs63 == FuncPolyCall => RLt(RAbs(RSub(result, R(63))), arg.a_epsilon)

\* the call of main.cpp has returned the exact integral
FuncPolyIs81 == FuncPolyCall /\ result = R(81) /\ ExactIntegral(arg.function.c, arg.a, arg.b) = R(81)

\* the sum of the weighted samples of an activation on [a, a] stays within Real
DegenerateSumFinite(y) ==
    ~RLt(RDiv(R(RealMax), R(IF alg = "Simpson" THEN 6 ELSE 2940)), RAbs(y))

\* C7 as amended: on a == b, the integrand being finite at a and small enough for
\* the weighted sum of its samples (6 |f(a)| in Simpson, 2940 |f(a)| in Lobatto)
\* not to overflow, the call returns 0.
DegenerateIntervalIsZero ==
    (Done /\ arg.a = arg.b /\ IsFinite(F(arg.function, arg.a))
          /\ DegenerateSumFinite(F(arg.function, arg.a)))
        => result = R(0)

\* C7 as stated: on a == b, the integrand being finite at a, the call returns 0.
DegenerateAlwaysZero ==
    (Done /\ arg.a = arg.b /\ IsFinite(F(arg.function, arg.a))) => result = R(0)

\* a call on a == b has returned 0, the integrand being large there
DegenerateZeroReached ==
    /\ Done
    /\ arg.a = arg.b
    /\ RLt(R(100), F(arg.function, arg.a))
    /\ IsFinite(F(arg.function, arg.a))
    /\ result = R(0)

\* C8: a call with the bounds exchanged returns the same result, and samples the
\* same points in the same order.
ReversedBoundsSame ==
    (Repeats /\ arg = [first.arg EXCEPT !.a = first.arg.b, !.b = first.arg.a])
        => result = first.result /\ samples = first.samples

\* a call that recursed has been repeated with its bounds exchanged
ReversedCallRepeated ==
    /\ Repeats
    /\ arg = [first.arg EXCEPT !.a = first.arg.b, !.b = first.arg.a]
    /\ RLt(arg.b, arg.a)
    /\ Len(leaves) >= 4
    /\ IsFinite(result)
    /\ result # R(0)

\* tol * 2^level = eps, both rationals
HalvedTimes(tol, eps, level) ==
    IsFinite(tol) /\ tol[1] * eps[2] * Pow(2, level) = eps[1] * tol[2]

\* C9: the error test of an activation at level k is against epsilon / 2^k in
\* Simpson and against epsilon in Lobatto, epsilon as clamped.
ToleranceByLevel ==
    \A t \in tested :
        IF alg = "Simpson" THEN HalvedTimes(t.tol, epsilon, t.level) ELSE t.tol = epsilon

\* error tests have been made three levels down
DeepToleranceTested ==
    /\ Done
    /\ alg = "Simpson"
    /\ \E t \in tested : t.level = 3 /\ t.tol = RDiv(epsilon, R(8))
    /\ \E t \in tested : t.level = 0

RECURSIVE SumOfLeaves(_, _)
SumOfLeaves(ls, n) == IF n = 0 THEN R(0) ELSE RAdd(SumOfLeaves(ls, n - 1), ls[n].est)

\* the i-th leaf from the left: leaves return left to right or right to left
InOrder(ls, i) == IF order = "left to right" THEN ls[i] ELSE ls[Len(ls) + 1 - i]

\* C10: in a call with a < b that does not return NaN the leaves of the recursion,
\* taken from left to right, run from a to b, each beginning where the one before
\* ends, and the result is the sum of their estimates.
LeavesPartition ==
    (Done /\ RLt(a, b) /\ ~IsNaN(result))
        => /\ leaves # << >>
           /\ InOrder(leaves, 1).lo = a
           /\ InOrder(leaves, Len(leaves)).hi = b
           /\ \A i \in 1..Len(leaves) : RLt(leaves[i].lo, leaves[i].hi)
           /\ \A i \in 1..(Len(leaves) - 1) :
                  InOrder(leaves, i).hi = InOrder(leaves, i + 1).lo
           /\ result = SumOfLeaves(leaves, Len(leaves))

\* a call has returned the sum of the estimates of many leaves of unequal depth
ManyLeavesSummed ==
    /\ Done
    /\ RLt(a, b)
    /\ IsFinite(result)
    /\ result # R(0)
    /\ Len(leaves) >= 6
    /\ \E i, j \in 1..Len(leaves) :
           RSub(leaves[i].hi, leaves[i].lo) # RSub(leaves[j].hi, leaves[j].lo)

===========================================================================
